---------------------------- MODULE Spec2Model ----------------------------
(***************************************************************************)
(* A model of the MetroGame station/line editor.                           *)
(*                                                                         *)
(* The repository holds two programs that share one design: gui.py (the    *)
(* window main.py starts; stations and lines are keyed by name and the     *)
(* two tables are the ground truth from which the registries are rebuilt)  *)
(* and mountain.py (a stand-alone window; stations and lines are keyed by  *)
(* integer id and the registries are the ground truth).  The variable app  *)
(* says which program is running.  Definitions of gui.py and its helper    *)
(* modules keep their source names; those of mountain.py carry the prefix  *)
(* mtn_.                                                                   *)
(*                                                                         *)
(* Numbers.  A planar coordinate or an elevation is an integer number of   *)
(* thousandths of a unit (25000.004 is 25000004).  A colour channel in     *)
(* [0, 1] is an integer number of 1/(255 * ColorSub).                      *)
(*                                                                         *)
(* Text.  A cell of a table holds text.  A cell that is read with float()  *)
(* is Text(v) when float() gives v and Garbage when float() raises         *)
(* ValueError.  The station list of a line is the sequence of the          *)
(* stripped pieces text.split(",") gives.  A colour cell is a record       *)
(* naming the form of the text and, for well formed text, its channels.    *)
(***************************************************************************)
EXTENDS Integers, Sequences, FiniteSets, TLC

VARIABLES
    app,              \* "gui" (main.py -> gui.TrainLineUI) or "mountain"
    dem_data,         \* self.dem_data: the elevation grid, <<>> for None
    x_coords,         \* self.x_coords
    y_coords,         \* self.y_coords
    stations,         \* self.stations: id -> record
    lines,            \* self.lines (gui.py), self.train_lines (mountain.py)
    next_station_id,  \* self.next_station_id
    next_line_id,     \* self.next_line_id
    station_table,    \* self.station_table: sequence of rows
    line_table,       \* self.line_table: sequence of rows
    last,             \* the handler that ran last and what it was given
    steps,            \* number of user actions handled so far
    spline_raises,    \* the plotter rejects a spline of fewer than 2 points
    q,                \* the query of the lookup and colour harnesses
    dlg,              \* the line dialog last accepted on a line: what it
                      \* was opened on and what it returned
    pc,               \* the statement load_new_dem has reached
    plotter,          \* plotter_widget: what the scene shows
    build             \* how the installed library inverts a threshold

vars == <<build, app, dem_data, x_coords, y_coords, stations, lines, next_station_id,
          next_line_id, station_table, line_table, last, steps, spline_raises,
          q, dlg,
                   pc, plotter>>

-----------------------------------------------------------------------------
(* Bounds of the model.                                                    *)

MaxStations == 3      \* rows of the station table
MaxLines == 2         \* rows of the line table
MaxSteps == 5         \* user actions handled in a session
ColorSub == 2         \* colour channel resolution: 1 / (255 * ColorSub)

-----------------------------------------------------------------------------
(* Text of table cells.                                                    *)

Text(v) == [num |-> TRUE, v |-> v]
Garbage == [num |-> FALSE, v |-> 0]

\* f"{v:.2f}": v rounded to hundredths.  (The model never formats a value
\* whose thousandths digit is 5, where the binary value decides.)
format_2f(v) ==
    IF v >= 0 THEN Text(((v + 5) \div 10) * 10)
    ELSE Text(-(((-v + 5) \div 10) * 10))

Abs(n) == IF n < 0 THEN -n ELSE n

-----------------------------------------------------------------------------
(* Elevation grid: dem_utils.py and TrainLineUI.get_elevation.             *)

HeightScale == 50          \* height_scale = 0.05 (gui.py's dem_utils)
mtn_HeightScale == 100     \* height_scale = 0.1 (mountain.py)
BoundaryMax == 100000      \* boundaries = (0, 0, 100000, 100000)

\* cv2.imread: an image is a matrix of pixel values, <<>> when the file is
\* missing or cannot be decoded.
NoImage == <<>>
ImageA == << <<0, 1>>, <<2, 3>>, <<4, 5>> >>
ImageB == << <<6, 7>>, <<8, 9>> >>
Images == {ImageA, ImageB}

\* visual_to_elevation: img_array * height_scale (the caller has checked
\* that the image was read).
visual_to_elevation(img) ==
    [i \in 1..Len(img) |-> [j \in 1..Len(img[i]) |-> img[i][j] * HeightScale]]

mtn_visual_to_elevation(img) ==
    [i \in 1..Len(img) |-> [j \in 1..Len(img[i]) |-> img[i][j] * mtn_HeightScale]]

\* np.linspace(0, stop, n), stop in units; the result in thousandths.
linspace(stop, n) ==
    [i \in 1..n |-> IF n = 1 THEN 0 ELSE ((i - 1) * stop * 1000) \div (n - 1)]

\* plot_dem_in_pyvista: the coordinate arrays of a grid.
plot_dem_x_coords(data) == linspace(BoundaryMax, Len(data))
plot_dem_y_coords(data) == linspace(BoundaryMax, Len(data[1]))

\* argmin's scan of the distances from index i on: best is the index of the
\* least distance so far, replaced only by a strictly smaller one.
RECURSIVE argmin_scan(_, _, _, _)
argmin_scan(arr, v, i, best) ==
    IF i > Len(arr) THEN best
    ELSE argmin_scan(arr, v, i + 1,
             IF Abs(arr[i] - v) < Abs(arr[best] - v) THEN i ELSE best)

\* The scan with the comparison a slip would write: a distance equal to
\* the least so far replaces it.
RECURSIVE argmin_scan_last(_, _, _, _)
argmin_scan_last(arr, v, i, best) ==
    IF i > Len(arr) THEN best
    ELSE argmin_scan_last(arr, v, i + 1,
             IF Abs(arr[i] - v) <= Abs(arr[best] - v) THEN i ELSE best)

argmin_abs_last(arr, v) == argmin_scan_last(arr, v, 2, 1)

\* np.abs(arr - v).argmin()
argmin_abs(arr, v) == argmin_scan(arr, v, 2, 1)

\* TrainLineUI.get_elevation of gui.py.
get_elevation(dem, xs, ys, x, y) ==
    IF dem = <<>> THEN 0
    ELSE dem[argmin_abs(xs, x)][argmin_abs(ys, y)]


-----------------------------------------------------------------------------
(* Colours: rgb_to_hex and hex_to_rgb of gui.py.                           *)

ColorOne == 255 * ColorSub          \* the channel value 1.0

\* The text '#RRGGBB' (upper case) of three channel bytes.
HexText(bytes) == [form |-> "upper", rgb |-> bytes]
\* Text that is not '#' and 6 characters (hex_to_rgb gives green).
ShortText == [form |-> "short", rgb |-> <<0, 0, 0>>]
\* 6 characters that are not all hex digits (int(.., 16) raises ValueError).
NonHexText == [form |-> "nonhex", rgb |-> <<0, 0, 0>>]

\* rgb_to_hex keeping only the high hex digit of each channel.
rgb_to_hex_coarse(rgb) ==
    HexText([i \in 1..3 |-> ((rgb[i] \div ColorSub) \div 16) * 16])

\* rgb_to_hex: int(r*255), int(g*255), int(b*255) as two upper case hex
\* digits each.
rgb_to_hex(rgb) ==
    HexText([i \in 1..3 |-> rgb[i] \div ColorSub])

\* hex_to_rgb raises ValueError on this text.
hex_to_rgb_raises(hex_str) == hex_str.form = "nonhex"

\* hex_to_rgb dividing the channel bytes by 256 instead of 255.
hex_to_rgb_256(hex_str) ==
    IF hex_str.form = "short" THEN <<0, ColorOne, 0>>
    ELSE [i \in 1..3 |-> (hex_str.rgb[i] * ColorOne) \div 256]

\* hex_to_rgb, on text it does not raise on.
hex_to_rgb(hex_str) ==
    IF hex_str.form = "short" THEN <<0, ColorOne, 0>>
    ELSE [i \in 1..3 |-> hex_str.rgb[i] * ColorSub]

-----------------------------------------------------------------------------
(* Station names and station lists as text.                                *)

\* f"Station {n}"
StationName(n) == "Station " \o ToString(n)

\* ", ".join(names), as the pieces split(",") gives back: the empty list
\* joins to the empty string, which splits to one empty piece.
join_names(names) == IF names = <<>> THEN <<"">> ELSE names

\* [s.strip() for s in text.split(",") if s.strip()]
split_names(pieces) == SelectSeq(pieces, LAMBDA s : s # "")

-----------------------------------------------------------------------------
(* Registries of gui.py, rebuilt from the tables.                          *)

\* add_point_labels([coords], [name]): the label actor of a station.
label_actor(name, coords) == [label |-> name, at |-> coords]

StationRowParses(r) == r.x.num /\ r.y.num /\ r.z.num

\* TrainLineUI.refresh_stations_on_plot: rows whose X, Y and Z parse, in
\* table order, numbered from 1.
refresh_stations_on_plot(table) ==
    LET ok == SelectSeq(table, StationRowParses)
    IN  [i \in 1..Len(ok) |->
            LET c == <<ok[i].x.v, ok[i].y.v, ok[i].z.v>>
            IN  [name |-> ok[i].name, coords |-> c,
                 actor |-> label_actor(ok[i].name, c)]]

\* station_utils.lookup_station_coords: for each name the coordinates of
\* the first station of that name; names of no station are skipped.
lookup_station_coords(station_names, stations_dict) ==
    LET found == SelectSeq(station_names,
                    LAMBDA n : \E i \in DOMAIN stations_dict :
                                  stations_dict[i].name = n)
    IN  [k \in 1..Len(found) |->
            LET i == CHOOSE i \in DOMAIN stations_dict :
                        /\ stations_dict[i].name = found[k]
                        /\ \A j \in DOMAIN stations_dict :
                              stations_dict[j].name = found[k] => i <= j
            IN  stations_dict[i].coords]

\* line_utils.build_line_actor for 2 or more points: the spline through
\* the points in order (50 subdivisions) in the colour.
build_line_actor(coords_list, color) ==
    [points |-> coords_list, color |-> color]

\* One row of refresh_lines_on_plot: "skip" (continue), "raise" (hex_to_rgb
\* raises ValueError) or "line".
LineRowOutcome(r, stations_dict) ==
    IF r.name = "" \/ r.stations = <<"">> THEN "skip"
    ELSE IF Len(lookup_station_coords(split_names(r.stations), stations_dict)) < 2
         THEN "skip"
    ELSE IF hex_to_rgb_raises(r.color) THEN "raise"
    ELSE "line"

LineOfRow(r, stations_dict) ==
    LET st_names == split_names(r.stations)
        color == hex_to_rgb(r.color)
    IN  [name |-> r.name, station_ids |-> st_names,
         actor |-> build_line_actor(
                      lookup_station_coords(st_names, stations_dict), color),
         color |-> color]

\* The rows refresh_lines_on_plot reaches: all of them, or those before the
\* first row on which hex_to_rgb raises (the exception leaves the loop).
RowsReached(table, stations_dict) ==
    LET bad == {i \in 1..Len(table) :
                   LineRowOutcome(table[i], stations_dict) = "raise"}
    IN  IF bad = {} THEN table
        ELSE SubSeq(table, 1,
                    (CHOOSE i \in bad : \A j \in bad : i <= j) - 1)

\* TrainLineUI.refresh_lines_on_plot: the registry is cleared and refilled
\* with the rows that have a name, a station list with 2 or more names of
\* stations, numbered from 1.
refresh_lines_on_plot(table, stations_dict) ==
    LET ok == SelectSeq(RowsReached(table, stations_dict),
                 LAMBDA r : LineRowOutcome(r, stations_dict) = "line")
    IN  [i \in 1..Len(ok) |-> LineOfRow(ok[i], stations_dict)]


-----------------------------------------------------------------------------
(* Inputs of the user.                                                     *)

\* Points the picker reports, (x, y) in thousandths.
PickPoints == {<<30000004, 0>>}

\* What the user types in a cell of the station table, by column.
StationCellTexts(column) ==
    CASE column = 0 -> {"Station 1"}
      [] column = 1 -> {Text(60000000), Garbage}
      [] column = 2 -> {Text(60000000)}
      [] OTHER      -> {Text(999000)}

\* What the user types in a cell of gui.py's line table, by column.
LineCellTexts(column) ==
    CASE column = 0 -> {""}
      [] column = 1 -> {<<"Station 1", "Station 1">>, <<"Station 2", "Nowhere">>}
      [] OTHER      -> {ShortText, NonHexText}


\* Colours of the line dialog: the random one a new line starts with, and
\* one chosen with the colour picker.
RandomColor == <<ColorOne - 1, 0, 1>>
PickedColor == <<0, 0, ColorOne>>

Reverse(seq) == [k \in 1..Len(seq) |-> seq[Len(seq) + 1 - k]]

\* Selections the user makes from a list of items: the first k items in
\* order, for every k from 0, and all the items in reverse order.
Selections(items) ==
    {SubSeq(items, 1, k) : k \in 0..Len(items)} \cup {Reverse(items)}

RemoveAt(seq, i) == SubSeq(seq, 1, i - 1) \o SubSeq(seq, i + 1, Len(seq))

Done(op, row, ok) == [op |-> op, row |-> row, ok |-> ok]

\* One more user action is handled.
Step == steps < MaxSteps /\ steps' = steps + 1

-----------------------------------------------------------------------------
(* Terrain meshes: the land and sea meshes plot_dem_in_pyvista builds     *)
(* from the grid.  A mesh is the set of its points [i, j, z], (i, j) the  *)
(* grid index of the point and z its height in the mesh.                  *)

Threshold == 10            \* grid.threshold(0.01, ...)

\* The cells of pv.StructuredGrid(X, Y, data): one quad per grid square,
\* named by its lowest corner.
grid_cells(data) == (1..(Len(data) - 1)) \X (1..(Len(data[1]) - 1))

cell_points(c) ==
    {<<c[1], c[2]>>, <<c[1] + 1, c[2]>>, <<c[1], c[2] + 1>>,
     <<c[1] + 1, c[2] + 1>>}

\* threshold(0.01, invert=False): the cells with a point whose scalar is
\* at least the value (all_scalars is off).
land_cells(data) ==
    {c \in grid_cells(data) :
        \E p \in cell_points(c) : data[p[1]][p[2]] >= Threshold}

\* threshold(0.01, invert=True).  The library inverts in one of two ways,
\* by its version: the cells the plain threshold leaves out, or the cells
\* with a point whose scalar is at most the value.
ThresholdBuilds == {"complement", "by_lower"}

sea_cells(data, inv) ==
    IF inv = "complement" THEN grid_cells(data) \ land_cells(data)
    ELSE {c \in grid_cells(data) :
             \E p \in cell_points(c) : data[p[1]][p[2]] <= Threshold}

\* The land mesh: the points of the land cells at their elevation.
land_mesh(data) ==
    {[i |-> p[1], j |-> p[2], z |-> data[p[1]][p[2]]] :
        p \in UNION {cell_points(c) : c \in land_cells(data)}}

\* The sea mesh: the points of the sea cells, sea.points[:, 2] = 0.
sea_mesh(data, inv) ==
    {[i |-> p[1], j |-> p[2], z |-> 0] :
        p \in UNION {cell_points(c) : c \in sea_cells(data, inv)}}

\* plotter_widget.add_mesh(mesh): the plotter raises ValueError on a mesh
\* without points.
add_mesh_raises(mesh) == mesh = {}

\* The two add_mesh calls after plot_dem_in_pyvista: "land" or "sea" names
\* the call that raises, "none" that both meshes are added.
add_meshes_outcome(data) ==
    IF add_mesh_raises(land_mesh(data)) THEN "land"
    ELSE IF add_mesh_raises(sea_mesh(data, build)) THEN "sea"
    ELSE "none"

-----------------------------------------------------------------------------
(* The start of a session.                                                 *)

\* TrainLineUI.setup_dem: "gradient_map.tiff" is read, or the read fails and
\* the surface stays unset.  An add_mesh that raises ends __init__: no
\* window is made.
setup_dem(img) ==
    IF img = NoImage
    THEN /\ dem_data = <<>> /\ x_coords = <<>> /\ y_coords = <<>>
    ELSE LET data == visual_to_elevation(img)
         IN  /\ add_meshes_outcome(data) = "none"
             /\ dem_data = data
             /\ x_coords = plot_dem_x_coords(data)
             /\ y_coords = plot_dem_y_coords(data)

\* TrainLineUI.__init__ of gui.py.
gui_init ==
    /\ app = "gui"
    /\ stations = <<>>
    /\ next_station_id = 1
    /\ lines = <<>>
    /\ next_line_id = 1
    /\ station_table = <<>>
    /\ line_table = <<>>
    /\ \E img \in {NoImage, ImageA} : setup_dem(img)

-----------------------------------------------------------------------------
(* Handlers of gui.py.                                                     *)

\* A pick that numbers the new station by the rows of the table.
point_picked_by_row_count(point) ==
    /\ app = "gui"
    /\ Step
    /\ Len(station_table) < MaxStations
    /\ LET x == point[1]
           y == point[2]
           z == get_elevation(dem_data, x_coords, y_coords, x, y)
           row == [name |-> StationName(Len(station_table) + 1),
                   x |-> format_2f(x), y |-> format_2f(y), z |-> format_2f(z)]
       IN  /\ next_station_id' = next_station_id + 1
           /\ station_table' = Append(station_table, row)
           /\ stations' = refresh_stations_on_plot(station_table')
           /\ lines' = refresh_lines_on_plot(line_table, stations')
    /\ last' = Done("point_picked", Len(station_table'), TRUE)
    /\ plotter' = [plotter EXCEPT !.labels = TRUE, !.curves = TRUE]
    /\ UNCHANGED <<build, app, dem_data, x_coords, y_coords, next_line_id,
                   line_table, spline_raises, q, dlg, pc>>

\* TrainLineUI.point_picked.
point_picked(point) ==
    /\ app = "gui"
    /\ Step
    /\ Len(station_table) < MaxStations
    /\ LET x == point[1]
           y == point[2]
           z == get_elevation(dem_data, x_coords, y_coords, x, y)
           row == [name |-> StationName(next_station_id),
                   x |-> format_2f(x), y |-> format_2f(y), z |-> format_2f(z)]
       IN  /\ next_station_id' = next_station_id + 1
           /\ station_table' = Append(station_table, row)
           /\ stations' = refresh_stations_on_plot(station_table')
           /\ lines' = refresh_lines_on_plot(line_table, stations')
    /\ last' = Done("point_picked", Len(station_table'), TRUE)
    /\ plotter' = [plotter EXCEPT !.labels = TRUE, !.curves = TRUE]
    /\ UNCHANGED <<build, app, dem_data, x_coords, y_coords, next_line_id, line_table, spline_raises, q, dlg,
                   pc>>

\* The user types text in a cell of the station table:
\* TrainLineUI.station_table_cell_changed.
station_table_cell_changed(row, column, text) ==
    /\ app = "gui"
    /\ Step
    /\ row \in 1..Len(station_table)
    /\ LET typed == CASE column = 0 -> [station_table EXCEPT ![row].name = text]
                      [] column = 1 -> [station_table EXCEPT ![row].x = text]
                      [] column = 2 -> [station_table EXCEPT ![row].y = text]
                      [] OTHER      -> [station_table EXCEPT ![row].z = text]
           r == typed[row]
       IN  IF column \in {1, 2} /\ ~(r.x.num /\ r.y.num)
           THEN \* ValueError: return before the refresh
                /\ station_table' = typed
                /\ last' = Done("station_table_cell_changed", row, FALSE)
                /\ UNCHANGED <<stations, lines, plotter>>
           ELSE /\ station_table' =
                      IF column \in {1, 2}
                      THEN [typed EXCEPT ![row].z = format_2f(
                               get_elevation(dem_data, x_coords, y_coords,
                                             r.x.v, r.y.v))]
                      ELSE typed
                /\ stations' = refresh_stations_on_plot(station_table')
                /\ lines' = refresh_lines_on_plot(line_table, stations')
                /\ plotter' = [plotter EXCEPT !.labels = TRUE,
                                              !.curves = TRUE]
                /\ last' = Done("station_table_cell_changed", row, TRUE)
    /\ UNCHANGED <<build, app, dem_data, x_coords, y_coords, next_station_id,
                   next_line_id, line_table, spline_raises, q, dlg,
                   pc>>

\* TrainLineUI.delete_station with the given row selected.
delete_station(row) ==
    /\ app = "gui"
    /\ Step
    /\ row \in 1..Len(station_table)
    /\ station_table' = RemoveAt(station_table, row)
    /\ stations' = refresh_stations_on_plot(station_table')
    /\ lines' = refresh_lines_on_plot(line_table, stations')
    /\ last' = Done("delete_station", row, TRUE)
    /\ plotter' = [plotter EXCEPT !.labels = TRUE, !.curves = TRUE]
    /\ UNCHANGED <<build, app, dem_data, x_coords, y_coords, next_station_id,
                   next_line_id, line_table, spline_raises, q, dlg,
                   pc>>

\* The names the line dialog offers.
available_stations == [i \in DOMAIN stations |-> stations[i].name]

\* LineEditorDialog.get_line_data for a new line.
\* (the name field starts empty, the colour random).
NewLineData ==
    {[name |-> "Red Line", station_ids |-> s, color |-> RandomColor] :
        s \in Selections(available_stations)}
    \cup {[name |-> "", station_ids |-> available_stations,
           color |-> RandomColor],
          [name |-> "Blue Line", station_ids |-> available_stations,
           color |-> PickedColor]}

LineRow(data) ==
    [name |-> data.name, stations |-> join_names(data.station_ids),
     color |-> rgb_to_hex(data.color)]

\* TrainLineUI.add_line with fewer than 2 stations: the warning.
add_line_warning ==
    /\ app = "gui"
    /\ Step
    /\ Len(stations) < 2
    /\ last' = Done("add_line", 0, FALSE)
    /\ UNCHANGED <<build, app, dem_data, x_coords, y_coords, stations, lines,
                   next_station_id, next_line_id, station_table, line_table, spline_raises, q, dlg,
                   pc, plotter>>

\* An add_line that inserts the table row before the dialog is answered:
\* cancelling leaves an empty row behind.
add_line_cancel_inserts ==
    /\ app = "gui"
    /\ Step
    /\ Len(stations) >= 2
    /\ Len(line_table) < MaxLines
    /\ line_table' = Append(line_table,
           LineRow([name |-> "", station_ids |-> <<>>, color |-> RandomColor]))
    /\ last' = Done("add_line", 0, FALSE)
    /\ UNCHANGED <<build, app, dem_data, x_coords, y_coords, stations, lines,
                   next_station_id, next_line_id, station_table,
                   spline_raises, q, dlg, pc, plotter>>

\* TrainLineUI.add_line, the dialog cancelled.
add_line_cancel ==
    /\ app = "gui"
    /\ Step
    /\ Len(stations) >= 2
    /\ last' = Done("add_line", 0, FALSE)
    /\ UNCHANGED <<build, app, dem_data, x_coords, y_coords, stations, lines,
                   next_station_id, next_line_id, station_table, line_table, spline_raises, q, dlg,
                   pc, plotter>>

\* TrainLineUI.add_line, the dialog accepted.
add_line ==
    /\ app = "gui"
    /\ Step
    /\ Len(stations) >= 2
    /\ Len(line_table) < MaxLines
    /\ \E new_line \in NewLineData :
          line_table' = Append(line_table, LineRow(new_line))
    /\ lines' = refresh_lines_on_plot(line_table', stations)
    /\ last' = Done("add_line", Len(line_table'), TRUE)
    /\ plotter' = [plotter EXCEPT !.curves = TRUE]
    /\ UNCHANGED <<build, app, dem_data, x_coords, y_coords, stations,
                   next_station_id, next_line_id, station_table, spline_raises, q, dlg,
                   pc>>


\* The line dialog opened on a row: LineEditorDialog.__init__ puts the
\* row's names in the selected list and leaves the other station names in
\* the available list; the user moves and reorders items, may retype the
\* name and may pick a colour.
EditLineData(current_line) ==
    LET rest == SelectSeq(available_stations,
                   LAMBDA a : \A k \in DOMAIN current_line.station_ids :
                                 current_line.station_ids[k] # a)
    IN  {[current_line EXCEPT !.station_ids = s] :
            s \in Selections(current_line.station_ids \o rest)
                  \cup {current_line.station_ids}}
        \cup {[current_line EXCEPT !.color = PickedColor],
              [current_line EXCEPT !.name = "Blue Line"]}

\* TrainLineUI.edit_line with the given row selected, the dialog accepted.
edit_line(row) ==
    /\ app = "gui"
    /\ Step
    /\ row \in 1..Len(line_table)
    /\ ~hex_to_rgb_raises(line_table[row].color)
    /\ LET current_line ==
               [name |-> line_table[row].name,
                station_ids |-> split_names(line_table[row].stations),
                color |-> hex_to_rgb(line_table[row].color)]
       IN  \E new_data \in EditLineData(current_line) :
              /\ line_table' = [line_table EXCEPT ![row] = LineRow(new_data)]
              /\ dlg' = [current |-> current_line, new |-> new_data]
    /\ lines' = refresh_lines_on_plot(line_table', stations)
    /\ last' = Done("edit_line", row, TRUE)
    /\ plotter' = [plotter EXCEPT !.curves = TRUE]
    /\ UNCHANGED <<build, app, dem_data, x_coords, y_coords, stations,
                   next_station_id, next_line_id, station_table, spline_raises, q,
                   pc>>

\* TrainLineUI.edit_line, nothing committed: the dialog is cancelled, or
\* hex_to_rgb raises on the row's colour text before the dialog opens.
edit_line_cancel(row) ==
    /\ app = "gui"
    /\ Step
    /\ row \in 1..Len(line_table)
    /\ last' = Done("edit_line", row, FALSE)
    /\ UNCHANGED <<build, app, dem_data, x_coords, y_coords, stations, lines,
                   next_station_id, next_line_id, station_table, line_table, spline_raises, q, dlg,
                   pc, plotter>>

\* TrainLineUI.delete_line with the given row selected.
delete_line(row) ==
    /\ app = "gui"
    /\ Step
    /\ row \in 1..Len(line_table)
    /\ line_table' = RemoveAt(line_table, row)
    /\ lines' = refresh_lines_on_plot(line_table', stations)
    /\ last' = Done("delete_line", row, TRUE)
    /\ plotter' = [plotter EXCEPT !.curves = TRUE]
    /\ UNCHANGED <<build, app, dem_data, x_coords, y_coords, stations,
                   next_station_id, next_line_id, station_table, spline_raises, q, dlg,
                   pc>>

\* The user types text in a cell of the line table:
\* TrainLineUI.line_table_cell_changed.
line_table_cell_changed(row, column, text) ==
    /\ app = "gui"
    /\ Step
    /\ row \in 1..Len(line_table)
    /\ line_table' =
          CASE column = 0 -> [line_table EXCEPT ![row].name = text]
            [] column = 1 -> [line_table EXCEPT ![row].stations = text]
            [] OTHER      -> [line_table EXCEPT ![row].color = text]
    /\ lines' = refresh_lines_on_plot(line_table', stations)
    /\ last' = Done("line_table_cell_changed", row, TRUE)
    /\ plotter' = [plotter EXCEPT !.curves = TRUE]
    /\ UNCHANGED <<build, app, dem_data, x_coords, y_coords, stations,
                   next_station_id, next_line_id, station_table, spline_raises, q, dlg,
                   pc>>

\* TrainLineUI.clear_all.
clear_all ==
    /\ app = "gui"
    /\ Step
    /\ station_table' = <<>>
    /\ line_table' = <<>>
    /\ stations' = <<>>
    /\ lines' = <<>>
    /\ next_station_id' = 1
    /\ next_line_id' = 1
    /\ last' = Done("clear_all", 0, TRUE)
    /\ plotter' = [plotter EXCEPT !.labels = TRUE, !.curves = TRUE]
    /\ UNCHANGED <<build, app, dem_data, x_coords, y_coords, spline_raises, q, dlg,
                   pc>>

\* TrainLineUI.load_new_dem from line 275 on, the image read.  The new
\* grid and sample arrays are assigned, the scene is cleared and the two
\* meshes are added; an add_mesh that raises leaves the handler with the
\* scene cleared (the land mesh added if it was the sea's call that raised)
\* and the registries as they were; otherwise the registries are rebuilt.
load_new_dem_read(img) ==
    LET data == visual_to_elevation(img)
        out == add_meshes_outcome(data)
    IN  /\ x_coords' = plot_dem_x_coords(data)
        /\ y_coords' = plot_dem_y_coords(data)
        /\ dem_data' = data
        /\ IF out = "none"
           THEN /\ stations' = refresh_stations_on_plot(station_table)
                /\ lines' = refresh_lines_on_plot(line_table, stations')
                /\ plotter' = [surface |-> data, labels |-> TRUE,
                               curves |-> TRUE]
                /\ last' = Done("load_new_dem", 0, TRUE)
           ELSE /\ plotter' = [surface |-> IF out = "sea" THEN data ELSE <<>>,
                               labels |-> FALSE, curves |-> FALSE]
                /\ last' = Done("load_new_dem_raised", 0, FALSE)
                /\ UNCHANGED <<stations, lines>>

\* A load that drops the surface before it reads the image: on a failed
\* read no surface is left.
load_new_dem_discards(img) ==
    /\ app = "gui"
    /\ Step
    /\ IF img = NoImage
       THEN /\ last' = Done("load_new_dem", 0, FALSE)
            /\ dem_data' = <<>> /\ x_coords' = <<>> /\ y_coords' = <<>>
            /\ UNCHANGED <<stations, lines, plotter>>
       ELSE load_new_dem_read(img)
    /\ UNCHANGED <<build, app, next_station_id, next_line_id, station_table,
                   line_table, spline_raises, q, dlg,
                   pc>>

\* TrainLineUI.load_new_dem with a file chosen whose image is img.
load_new_dem(img) ==
    /\ app = "gui"
    /\ Step
    /\ IF img = NoImage
       THEN \* visual_to_elevation raises: the error box, return
            /\ last' = Done("load_new_dem", 0, FALSE)
            /\ UNCHANGED <<dem_data, x_coords, y_coords, stations, lines,
                           plotter>>
       ELSE load_new_dem_read(img)
    /\ UNCHANGED <<build, app, next_station_id, next_line_id, station_table,
                   line_table, spline_raises, q, dlg,
                   pc>>

\* TrainLineUI.load_new_dem, the file chooser cancelled.
load_new_dem_cancel ==
    /\ app = "gui"
    /\ Step
    /\ last' = Done("load_new_dem_cancel", 0, FALSE)
    /\ UNCHANGED <<build, app, dem_data, x_coords, y_coords, stations, lines,
                   next_station_id, next_line_id, station_table, line_table,
                   spline_raises, q, dlg, pc, plotter>>

\* The station and line records save_data reads off the two tables.
station_data(table) ==
    [k \in DOMAIN table |->
        [Name |-> table[k].name, X |-> table[k].x, Y |-> table[k].y,
         Z |-> table[k].z]]

line_data(table) ==
    [k \in DOMAIN table |->
        [Line_Name |-> table[k].name, Stations |-> table[k].stations,
         Color |-> table[k].color]]

\* TrainLineUI.save_data with a file name chosen.  "import io" (line 10)
\* binds the standard library's io, which is loaded before the script
\* starts and has no save_data: line 515 raises AttributeError, the except
\* branch shows the error box and no file is written.
save_data ==
    /\ app = "gui"
    /\ Step
    /\ last' = Done("save_data_error", 0, FALSE)
    /\ UNCHANGED <<build, app, dem_data, x_coords, y_coords, stations, lines,
                   next_station_id, next_line_id, station_table, line_table,
                   spline_raises, q, dlg, pc, plotter>>

\* TrainLineUI.save_data, the file chooser cancelled.
save_data_cancel ==
    /\ app = "gui"
    /\ Step
    /\ last' = Done("save_data", 0, FALSE)
    /\ UNCHANGED <<build, app, dem_data, x_coords, y_coords, stations, lines,
                   next_station_id, next_line_id, station_table, line_table,
                   spline_raises, q, dlg, pc, plotter>>

\* TrainLineUI.import_data, the file chooser cancelled.
import_data_cancel ==
    /\ app = "gui"
    /\ Step
    /\ last' = Done("import_data", 0, FALSE)
    /\ UNCHANGED <<build, app, dem_data, x_coords, y_coords, stations, lines,
                   next_station_id, next_line_id, station_table, line_table,
                   spline_raises, q, dlg, pc, plotter>>

\* TrainLineUI.import_data with a file chosen.  io is the standard
\* library's module and has no import_data: line 524 raises AttributeError
\* before a loader runs, and the except branch shows the error box.
import_data ==
    /\ app = "gui"
    /\ Step
    /\ last' = Done("import_data_error", 0, FALSE)
    /\ UNCHANGED <<build, app, dem_data, x_coords, y_coords, stations, lines,
                   next_station_id, next_line_id, station_table, line_table,
                   spline_raises, q, dlg, pc, plotter>>

-----------------------------------------------------------------------------
(* mountain.py: registries keyed by id.                                    *)

\* The keys of a dict in insertion order; ids are handed out in increasing
\* order and a key is never inserted twice.
RECURSIVE SortedIds(_)
SortedIds(S) ==
    IF S = {} THEN <<>>
    ELSE LET m == CHOOSE m \in S : \A k \in S : m <= k
         IN  <<m>> \o SortedIds(S \ {m})

DictPut(d, k, v) == [i \in DOMAIN d \cup {k} |-> IF i = k THEN v ELSE d[i]]
DictDel(d, k) == [i \in DOMAIN d \ {k} |-> d[i]]

\* TrainLineUI.get_elevation of mountain.py (the surface is loaded).
mtn_get_elevation(dem, xs, ys, x, y) ==
    dem[argmin_abs(xs, x)][argmin_abs(ys, y)]

\* pv.Spline(points, 100) added to the plotter in a colour.
mtn_spline_actor(points, color) ==
    [points |-> points, color |-> color, shown |-> TRUE]

\* [self.stations[sid]["coords"] for sid in station_ids if sid in self.stations]
mtn_points(station_ids, sts) ==
    LET found == SelectSeq(station_ids, LAMBDA sid : sid \in DOMAIN sts)
    IN  [k \in 1..Len(found) |-> sts[found[k]].coords]

\* TrainLineUI.update_line_actor: the registry afterwards, and whether the
\* call raised (the old actor is then already removed from the plotter).
mtn_update_line_actor(ls, sts, lid, strict) ==
    LET station_ids == ls[lid].station_ids
        points == mtn_points(station_ids, sts)
    IN  IF Len(station_ids) < 2 THEN [lines |-> ls, raised |-> FALSE]
        ELSE IF Len(points) < 2 /\ strict
        THEN [lines |-> [ls EXCEPT ![lid].actor.shown = FALSE],
              raised |-> TRUE]
        ELSE [lines |-> [ls EXCEPT ![lid].actor =
                            mtn_spline_actor(points, ls[lid].color)],
              raised |-> FALSE]

RECURSIVE mtn_update_lines_from(_, _, _, _)
mtn_update_lines_from(ls, sts, lids, strict) ==
    IF lids = <<>> THEN [lines |-> ls, raised |-> FALSE]
    ELSE LET r == mtn_update_line_actor(ls, sts, Head(lids), strict)
         IN  IF r.raised THEN r
             ELSE mtn_update_lines_from(r.lines, sts, Tail(lids), strict)

\* TrainLineUI.update_all_lines: every line in turn, up to the first call
\* that raises.
mtn_update_all_lines(ls, sts, strict) ==
    mtn_update_lines_from(ls, sts, SortedIds(DOMAIN ls), strict)

\* TrainLineUI.update_line_table: one row per line, the ids joined.
mtn_update_line_table(ls) ==
    LET lids == SortedIds(DOMAIN ls)
    IN  [k \in 1..Len(lids) |->
            [id |-> lids[k], stations |-> ls[lids[k]].station_ids]]

\* TrainLineUI.station_cell_changed on a row whose cells are all set: the
\* stations, lines and table afterwards.
mtn_station_cell_changed_do(sts, ls, table, row, column, dem, xs, ys, strict) ==
    LET r == table[row]
        same == [stations |-> sts, lines |-> ls, table |-> table, ok |-> FALSE]
    IN  IF column \notin {1, 2} THEN same
        ELSE IF ~(r.x.num /\ r.y.num) THEN same
        ELSE LET new_z == mtn_get_elevation(dem, xs, ys, r.x.v, r.y.v)
                 c == <<r.x.v, r.y.v, new_z>>
                 sts2 == [sts EXCEPT ![r.id] =
                             [coords |-> c,
                              actor |-> label_actor(StationName(r.id), c)]]
             IN  [stations |-> sts2,
                  lines |-> mtn_update_all_lines(ls, sts2, strict).lines,
                  table |-> [table EXCEPT ![row].z = format_2f(new_z)],
                  ok |-> TRUE]

\* TrainLineUI.__init__ of mountain.py.
mtn_init ==
    /\ app = "mountain"
    /\ stations = <<>>
    /\ lines = <<>>
    /\ next_station_id = 1
    /\ next_line_id = 0
    /\ station_table = <<>>
    /\ line_table = <<>>
    /\ \E img \in {NoImage, ImageA} :
          IF img = NoImage
          THEN /\ dem_data = <<>> /\ x_coords = <<>> /\ y_coords = <<>>
          ELSE LET data == mtn_visual_to_elevation(img)
               IN  /\ add_meshes_outcome(data) = "none"
                   /\ dem_data = data
                   /\ x_coords = plot_dem_x_coords(data)
                   /\ y_coords = plot_dem_y_coords(data)

\* TrainLineUI.point_picked.  The station is stored with the picked
\* coordinates and the row is filled cell by cell; setItem emits
\* cellChanged, so station_cell_changed runs when the Y cell is set (the
\* X cell is then set too) and stores the coordinates parsed back from the
\* two cells; setting the Z cell afterwards overwrites the text it wrote.
mtn_point_picked(point) ==
    /\ app = "mountain"
    /\ Step
    /\ dem_data # <<>>
    /\ Len(station_table) < MaxStations
    /\ LET x == point[1]
           y == point[2]
           z == mtn_get_elevation(dem_data, x_coords, y_coords, x, y)
           sid == next_station_id
           coords == <<x, y, z>>
           sts1 == DictPut(stations, sid,
                      [coords |-> coords,
                       actor |-> label_actor(StationName(sid), coords)])
           \* the Z cell is not set yet when the handler runs; it reads X, Y
           row == [id |-> sid, x |-> format_2f(x), y |-> format_2f(y),
                   z |-> format_2f(z)]
           e == mtn_station_cell_changed_do(sts1, lines,
                    Append(station_table, row), Len(station_table) + 1, 2,
                    dem_data, x_coords, y_coords, spline_raises)
       IN  /\ next_station_id' = sid + 1
           /\ stations' = e.stations
           /\ lines' = e.lines
           /\ station_table' = Append(station_table, row)
    /\ last' = Done("point_picked", 0, TRUE)
    /\ UNCHANGED <<build, app, dem_data, x_coords, y_coords, next_line_id, line_table,
                   spline_raises, q, dlg,
                   pc, plotter>>

\* TrainLineUI.point_picked with no surface loaded: get_elevation raises
\* AttributeError (self.x_coords was never set).
mtn_point_picked_raises ==
    /\ app = "mountain"
    /\ Step
    /\ dem_data = <<>>
    /\ last' = Done("point_picked", 0, FALSE)
    /\ UNCHANGED <<build, app, dem_data, x_coords, y_coords, stations, lines,
                   next_station_id, next_line_id, station_table, line_table,
                   spline_raises, q, dlg,
                   pc, plotter>>

\* The user types text in an X, Y or Z cell: TrainLineUI.station_cell_changed.
mtn_station_cell_changed(row, column, text) ==
    /\ app = "mountain"
    /\ Step
    /\ row \in 1..Len(station_table)
    /\ column \in 1..3
    /\ LET typed == CASE column = 1 -> [station_table EXCEPT ![row].x = text]
                      [] column = 2 -> [station_table EXCEPT ![row].y = text]
                      [] OTHER      -> [station_table EXCEPT ![row].z = text]
           e == mtn_station_cell_changed_do(stations, lines, typed, row,
                    column, dem_data, x_coords, y_coords, spline_raises)
       IN  /\ stations' = e.stations
           /\ lines' = e.lines
           /\ station_table' = e.table
           /\ last' = Done("station_cell_changed", row, e.ok)
    /\ UNCHANGED <<build, app, dem_data, x_coords, y_coords, next_station_id,
                   next_line_id, line_table, spline_raises, q, dlg,
                   pc, plotter>>


\* list.remove(sid): the list without the first sid.
RemoveFirst(seq, v) ==
    LET i == CHOOSE i \in 1..Len(seq) :
                 seq[i] = v /\ \A k \in 1..(i - 1) : seq[k] # v
    IN  RemoveAt(seq, i)

InSeq(v, seq) == \E k \in 1..Len(seq) : seq[k] = v

\* The loop of TrainLineUI.delete_station over the lines: the station is
\* removed once from each list that holds it, a line left with fewer than
\* 2 ids is marked, any other has its actor rebuilt; a call that raises
\* ends the loop and the handler.
RECURSIVE mtn_delete_station_loop(_, _, _, _, _, _)
mtn_delete_station_loop(ls, sts, lids, sid, to_remove, strict) ==
    IF lids = <<>>
    THEN [lines |-> ls, to_remove |-> to_remove, raised |-> FALSE]
    ELSE LET lid == Head(lids)
         IN  IF ~InSeq(sid, ls[lid].station_ids)
             THEN mtn_delete_station_loop(ls, sts, Tail(lids), sid,
                                          to_remove, strict)
             ELSE LET ls1 == [ls EXCEPT ![lid].station_ids =
                                 RemoveFirst(ls[lid].station_ids, sid)]
                  IN  IF Len(ls1[lid].station_ids) < 2
                      THEN mtn_delete_station_loop(ls1, sts, Tail(lids), sid,
                               to_remove \cup {lid}, strict)
                      ELSE LET r == mtn_update_line_actor(ls1, sts, lid, strict)
                           IN  IF r.raised
                               THEN [lines |-> r.lines,
                                     to_remove |-> to_remove, raised |-> TRUE]
                               ELSE mtn_delete_station_loop(r.lines, sts,
                                        Tail(lids), sid, to_remove, strict)

\* TrainLineUI.delete_station with the given row selected.
mtn_delete_station(row) ==
    /\ app = "mountain"
    /\ Step
    /\ row \in 1..Len(station_table)
    /\ LET sid == station_table[row].id
           sts1 == DictDel(stations, sid)
           r == mtn_delete_station_loop(lines, sts1, SortedIds(DOMAIN lines),
                                        sid, {}, spline_raises)
           kept == [l \in DOMAIN r.lines \ r.to_remove |-> r.lines[l]]
       IN  /\ station_table' = RemoveAt(station_table, row)
           /\ stations' = sts1
           /\ IF r.raised
              THEN lines' = r.lines /\ UNCHANGED line_table
              ELSE lines' = kept /\ line_table' = mtn_update_line_table(kept)
           /\ last' = Done("delete_station", row, ~r.raised)
    /\ UNCHANGED <<build, app, dem_data, x_coords, y_coords, next_station_id,
                   next_line_id, spline_raises, q, dlg,
                   pc, plotter>>

\* StationSelectionDialog.selected_ids: station ids in the order chosen.
mtn_selections == Selections(SortedIds(DOMAIN stations))

\* TrainLineUI.add_line, nothing committed: fewer than 2 stations exist,
\* the dialog is cancelled, or fewer than 2 stations are selected.
mtn_add_line_rejected ==
    /\ app = "mountain"
    /\ Step
    /\ last' = Done("add_line", 0, FALSE)
    /\ UNCHANGED <<build, app, dem_data, x_coords, y_coords, stations, lines,
                   next_station_id, next_line_id, station_table, line_table,
                   spline_raises, q, dlg,
                   pc, plotter>>

\* TrainLineUI.add_line, the dialog accepted with 2 or more stations.
mtn_add_line(selected_ids) ==
    /\ app = "mountain"
    /\ Step
    /\ Cardinality(DOMAIN stations) >= 2
    /\ Len(line_table) < MaxLines
    /\ selected_ids \in mtn_selections
    /\ Len(selected_ids) >= 2
    /\ LET lid == next_line_id
           color == RandomColor
           line == [station_ids |-> selected_ids,
                    actor |-> mtn_spline_actor(
                                 mtn_points(selected_ids, stations), color),
                    color |-> color]
       IN  /\ next_line_id' = lid + 1
           /\ lines' = DictPut(lines, lid, line)
           /\ line_table' = mtn_update_line_table(lines')
    /\ last' = Done("add_line", 0, TRUE)
    /\ UNCHANGED <<build, app, dem_data, x_coords, y_coords, stations,
                   next_station_id, station_table, spline_raises, q, dlg,
                   pc, plotter>>

\* TrainLineUI.edit_line, nothing committed: the dialog is cancelled or
\* fewer than 2 stations are selected.
mtn_edit_line_rejected(row) ==
    /\ app = "mountain"
    /\ Step
    /\ row \in 1..Len(line_table)
    /\ last' = Done("edit_line", row, FALSE)
    /\ UNCHANGED <<build, app, dem_data, x_coords, y_coords, stations, lines,
                   next_station_id, next_line_id, station_table, line_table,
                   spline_raises, q, dlg,
                   pc, plotter>>

\* TrainLineUI.edit_line with the given row selected, the dialog accepted
\* with 2 or more stations.
mtn_edit_line(row, new_station_ids) ==
    /\ app = "mountain"
    /\ Step
    /\ row \in 1..Len(line_table)
    /\ new_station_ids \in mtn_selections
    /\ Len(new_station_ids) >= 2
    /\ LET lid == line_table[row].id
       IN  /\ lines' = [lines EXCEPT
                 ![lid].station_ids = new_station_ids,
                 ![lid].actor = mtn_spline_actor(
                     mtn_points(new_station_ids, stations), lines[lid].color)]
           /\ line_table' = mtn_update_line_table(lines')
           /\ dlg' = [current |-> [station_ids |-> lines[lid].station_ids],
                      new |-> [station_ids |-> new_station_ids]]
    /\ last' = Done("edit_line", row, TRUE)
    /\ UNCHANGED <<build, app, dem_data, x_coords, y_coords, stations,
                   next_station_id, next_line_id, station_table,
                   spline_raises, q, pc, plotter>>

\* TrainLineUI.delete_line with the given row selected (delete_line_by_id).
mtn_delete_line(row) ==
    /\ app = "mountain"
    /\ Step
    /\ row \in 1..Len(line_table)
    /\ lines' = DictDel(lines, line_table[row].id)
    /\ line_table' = mtn_update_line_table(lines')
    /\ last' = Done("delete_line", row, TRUE)
    /\ UNCHANGED <<build, app, dem_data, x_coords, y_coords, stations,
                   next_station_id, next_line_id, station_table,
                   spline_raises, q, dlg,
                   pc, plotter>>

\* What the user types in the station list of a line of mountain.py: the
\* pieces between commas, a piece of digits as its number, any other as -1.
mtn_LineCellTexts == {<<1, 1, 2>>, <<1, 9>>, <<1, -1>>}

\* [int(x.strip()) for x in text.split(",") if x.strip().isdigit()]
mtn_parse_ids(pieces) == SelectSeq(pieces, LAMBDA n : n >= 0)

\* The user types text in the Station IDs cell of a line:
\* TrainLineUI.line_cell_changed.
mtn_line_cell_changed(row, text) ==
    /\ app = "mountain"
    /\ Step
    /\ row \in 1..Len(line_table)
    /\ LET lid == line_table[row].id
           new_ids == mtn_parse_ids(text)
           ls1 == [lines EXCEPT ![lid].station_ids = new_ids]
       IN  IF Len(new_ids) < 2
           THEN \* the warning; update_line_table puts the old text back
                /\ line_table' = mtn_update_line_table(lines)
                /\ last' = Done("line_cell_changed", row, FALSE)
                /\ UNCHANGED lines
           ELSE \* an exception of update_line_actor is caught and printed
                /\ lines' = mtn_update_line_actor(ls1, stations, lid,
                                                  spline_raises).lines
                /\ line_table' = [line_table EXCEPT ![row].stations = text]
                /\ last' = Done("line_cell_changed", row, TRUE)
    /\ UNCHANGED <<build, app, dem_data, x_coords, y_coords, stations,
                   next_station_id, next_line_id, station_table,
                   spline_raises, q, dlg,
                   pc, plotter>>

-----------------------------------------------------------------------------
(* The editor: either program, and what the user does.                     *)

Init ==
    /\ build \in ThresholdBuilds
    /\ gui_init \/ mtn_init
    /\ spline_raises \in BOOLEAN
    /\ app = "gui" => spline_raises = FALSE
    /\ last = Done("init", 0, TRUE)
    /\ steps = 0
    /\ q = <<>>
    /\ dlg = <<>>
    /\ pc = "idle"
    /\ plotter = [surface |-> dem_data, labels |-> TRUE, curves |-> TRUE]

Next ==
    \/ \E p \in PickPoints : point_picked(p)
    \/ \E row \in DOMAIN station_table, column \in 0..3 :
         \E text \in StationCellTexts(column) :
            station_table_cell_changed(row, column, text)
    \/ \E row \in DOMAIN station_table : delete_station(row)
    \/ add_line_warning
    \/ add_line_cancel
    \/ add_line
    \/ \E row \in DOMAIN line_table : edit_line(row)
    \/ \E row \in DOMAIN line_table : edit_line_cancel(row)
    \/ \E row \in DOMAIN line_table : delete_line(row)
    \/ \E row \in DOMAIN line_table, column \in 0..2 :
         \E text \in LineCellTexts(column) :
            line_table_cell_changed(row, column, text)
    \/ clear_all
    \/ \E img \in Images \cup {NoImage} : load_new_dem(img)
    \/ load_new_dem_cancel
    \/ save_data
    \/ save_data_cancel
    \/ import_data_cancel
    \/ import_data
    \/ \E p \in PickPoints : mtn_point_picked(p)
    \/ mtn_point_picked_raises
    \/ \E row \in DOMAIN station_table, column \in 1..3 :
         \E text \in StationCellTexts(column) :
            mtn_station_cell_changed(row, column, text)
    \/ \E row \in DOMAIN station_table : mtn_delete_station(row)
    \/ mtn_add_line_rejected
    \/ \E s \in mtn_selections : mtn_add_line(s)
    \/ \E row \in DOMAIN line_table : mtn_edit_line_rejected(row)
    \/ \E row \in DOMAIN line_table, s \in mtn_selections : mtn_edit_line(row, s)
    \/ \E row \in DOMAIN line_table : mtn_delete_line(row)
    \/ \E row \in DOMAIN line_table, text \in mtn_LineCellTexts :
         mtn_line_cell_changed(row, text)

Spec == Init /\ [][Next]_vars

-----------------------------------------------------------------------------
(* The elevation lookup on its own: either program with its start-up       *)
(* surface, gui.py also with a surface loaded later, asked for the         *)
(* elevation at points inside, on the edge of and outside the grid.        *)

\* Coordinates asked for, in thousandths: below the range, on grid lines,
\* half way between grid lines of ImageA and of ImageB, next to half way,
\* above the range.
SampleCoords ==
    {-7000000, 0, 24999990, 25000000, 25000004, 50000000, 50000010, 75000000,
     100000000, 130000000}

\* get_elevation(x, y) of the running program on its current surface.
sample(x, y) ==
    /\ dem_data # <<>>
    /\ q' = [dem |-> dem_data, xs |-> x_coords, ys |-> y_coords,
             x |-> x, y |-> y,
             z |-> IF app = "gui"
                   THEN get_elevation(dem_data, x_coords, y_coords, x, y)
                   ELSE mtn_get_elevation(dem_data, x_coords, y_coords, x, y)]
    /\ UNCHANGED <<build, app, dem_data, x_coords, y_coords, stations, lines,
                   next_station_id, next_line_id, station_table, line_table,
                   last, steps, spline_raises, dlg,
                   pc, plotter>>

SampleNext ==
    \/ \E x \in SampleCoords, y \in SampleCoords : sample(x, y)
    \/ \E img \in Images : load_new_dem(img)

SpecSample == Init /\ [][SampleNext]_vars


-----------------------------------------------------------------------------
(* Vocabulary of the properties.                                           *)

\* A station reference of a line resolves: a name to a station of that
\* name (gui.py), an id to a station of that id (mountain.py).
Resolves(ref) ==
    IF app = "gui" THEN \E i \in DOMAIN stations : stations[i].name = ref
    ELSE ref \in DOMAIN stations

\* The station references a row of the line table holds.
RowRefs(r) ==
    IF app = "gui" THEN split_names(r.stations) ELSE mtn_parse_ids(r.stations)

NumResolvable(refs) == Len(SelectSeq(refs, Resolves))

Without(refs, s) == SelectSeq(refs, LAMBDA t : t # s)

\* The reference by which lines name the station of a row of the station
\* table.
RowStation(r) == IF app = "gui" THEN r.name ELSE r.id

\* The step just taken is the handler op, and it committed.
Did(op) == last'.op = op /\ last'.ok

\* The curve a line shows is built from the current coordinates of its
\* references, in order.
GeometryCurrent(line, sts) ==
    IF app = "gui"
    THEN line.actor.points = lookup_station_coords(line.station_ids, sts)
    ELSE line.actor.shown /\ line.actor.points = mtn_points(line.station_ids, sts)

\* The elevation of the current surface at (x, y).
Sample(x, y) ==
    IF app = "gui" THEN get_elevation(dem_data, x_coords, y_coords, x, y)
    ELSE mtn_get_elevation(dem_data, x_coords, y_coords, x, y)

-----------------------------------------------------------------------------
(* C1.  Removing a station prunes every line left with fewer than 2       *)
(* references (from the registry and from the line table) and retains     *)
(* every line left with 2 or more, with its id, name, colour and the      *)
(* remaining references in order; lines that did not reference the        *)
(* station are unchanged.  (Stated for the removal of a registered        *)
(* station whose reference denotes it alone.)                             *)

C1_LineGone(l, s) ==
    IF app = "gui"
    THEN /\ \A k \in DOMAIN lines' :
               ~(lines'[k].name = lines[l].name
                 /\ lines'[k].station_ids \in
                       {lines[l].station_ids, Without(lines[l].station_ids, s)})
         /\ \A k \in DOMAIN line_table' :
               ~(line_table'[k].name = lines[l].name
                 /\ split_names(line_table'[k].stations) \in
                       {lines[l].station_ids, Without(lines[l].station_ids, s)})
    ELSE /\ l \notin DOMAIN lines'
         /\ \A k \in DOMAIN line_table' : line_table'[k].id # l

C1_LineKept(l, s) ==
    /\ l \in DOMAIN lines'
    /\ lines'[l].station_ids = Without(lines[l].station_ids, s)
    /\ lines'[l].color = lines[l].color
    /\ app = "gui" => lines'[l].name = lines[l].name

C1_RemoveStationPrunesOrRetains ==
    [][ (Did("delete_station") /\ last'.row \in DOMAIN station_table)
        => LET s == RowStation(station_table[last'.row])
           IN  (IF app = "gui"
                THEN Cardinality({i \in DOMAIN stations :
                                     stations[i].name = s}) = 1
                ELSE s \in DOMAIN stations)
               => \A l \in DOMAIN lines :
                     IF InSeq(s, lines[l].station_ids)
                     THEN IF Len(Without(lines[l].station_ids, s)) < 2
                          THEN C1_LineGone(l, s)
                          ELSE C1_LineKept(l, s)
                     ELSE l \in DOMAIN lines' /\ lines'[l] = lines[l]
      ]_vars

-----------------------------------------------------------------------------
(* C2.  No dangling references: every station reference of every line    *)
(* of the registry resolves to a station of the station registry.         *)

C2_NoDanglingReferences ==
    \A l \in DOMAIN lines :
        \A k \in DOMAIN lines[l].station_ids :
            Resolves(lines[l].station_ids[k])

-----------------------------------------------------------------------------
(* C3.  Every line the store holds, in the line registry and in the line  *)
(* table, has at least 2 station references that resolve.                 *)

C3_LinesHaveTwoResolvable ==
    /\ \A l \in DOMAIN lines : NumResolvable(lines[l].station_ids) >= 2
    /\ \A k \in DOMAIN line_table : NumResolvable(RowRefs(line_table[k])) >= 2

-----------------------------------------------------------------------------
(* C4.  Ids are never reused: outside a reset and a rename, an id that is *)
(* a station's (a line's) before a step is not the id of a different      *)
(* station (line) after it, and a station or line that is new after the   *)
(* step has an id greater than every id in use before it.                 *)

C4_SameStation(a, b) == app = "gui" => a.name = b.name

C4_SameLine(a, b) ==
    IF app = "gui" THEN a.name = b.name /\ a.station_ids = b.station_ids
    ELSE TRUE

C4_IdsNeverReused ==
    [][ last'.op \in {"point_picked", "delete_station", "add_line",
                      "delete_line"}
        => /\ \A i \in DOMAIN stations \cap DOMAIN stations' :
                 C4_SameStation(stations[i], stations'[i])
           /\ \A l \in DOMAIN lines \cap DOMAIN lines' :
                 C4_SameLine(lines[l], lines'[l])
           /\ \A i \in DOMAIN stations' \ DOMAIN stations :
                 /\ \A j \in DOMAIN stations : i > j
                 /\ i >= next_station_id
           /\ \A l \in DOMAIN lines' \ DOMAIN lines :
                 \A j \in DOMAIN lines : l > j
      ]_vars

-----------------------------------------------------------------------------
(* C5.  A reset leaves both registries empty and both id counters at      *)
(* their initial value, which is 1; the first station and the first line  *)
(* of a fresh session or after a reset get id 1.                          *)

\* No line has been created since the session started or was reset: the
\* line table is empty and, where line ids come from a counter that the
\* tables do not show, the session is at most two actions old.
C5_NoLineYet ==
    line_table = <<>> /\ lines = <<>> /\ (app = "mountain" => steps <= 2)

C5_ResetAndFirstIdsAreOne ==
    [][ /\ Did("clear_all")
           => /\ stations' = <<>> /\ lines' = <<>>
              /\ next_station_id' = 1 /\ next_line_id' = 1
        /\ last.op = "init" => next_station_id = 1 /\ next_line_id = 1
        /\ (last.op \in {"init", "clear_all"} /\ Did("point_picked"))
           => /\ DOMAIN stations' = {1}
              /\ app = "gui" => stations'[1].name = StationName(1)
        /\ (C5_NoLineYet /\ Did("add_line") /\ lines' # <<>>)
           => DOMAIN lines' = {1}
      ]_vars

-----------------------------------------------------------------------------
(* C6.  Line validation: an attempt to create a line that does not end   *)
(* with a new line of at least 2 station references (taken while at      *)
(* least 2 stations exist), and an edit of a line that does not leave    *)
(* the line with at least 2 station references, is rejected: the line    *)
(* registry, the line table, the station registry and both id counters   *)
(* are as before.                                                        *)

C6_CreatedValid ==
    /\ last'.ok
    /\ Len(station_table) >= 2
    /\ Len(line_table') = Len(line_table) + 1
    /\ Len(RowRefs(line_table'[Len(line_table')])) >= 2

C6_EditedValid ==
    /\ last'.ok
    /\ last'.row \in DOMAIN line_table'
    /\ Len(RowRefs(line_table'[last'.row])) >= 2

C6_StoreUnchanged ==
    UNCHANGED <<stations, lines, line_table, next_station_id, next_line_id>>

C6_InvalidLineRejected ==
    [][ /\ (last'.op = "add_line" /\ ~C6_CreatedValid) => C6_StoreUnchanged
        /\ (last'.op \in {"edit_line", "line_table_cell_changed",
                          "line_cell_changed"} /\ ~C6_EditedValid)
           => C6_StoreUnchanged
      ]_vars

-----------------------------------------------------------------------------
(* C7.  addStation(x, y) adds exactly one station; its coordinate is     *)
(* (x, y, sample(x, y)), its id and default name number are the value of *)
(* the station counter before the call; the counter grows by one; every  *)
(* existing station and every line is unchanged.                         *)

C7_AddStationAddsExactlyOne ==
    [][ Did("point_picked")
        => \E p \in PickPoints :
              LET id == next_station_id
              IN  /\ id \notin DOMAIN stations
                  /\ DOMAIN stations' = DOMAIN stations \cup {id}
                  /\ stations'[id].coords = <<p[1], p[2], Sample(p[1], p[2])>>
                  /\ app = "gui" => stations'[id].name = StationName(id)
                  /\ \A i \in DOMAIN stations : stations'[i] = stations[i]
                  /\ next_station_id' = id + 1
                  /\ UNCHANGED <<lines, line_table, next_line_id>>
      ]_vars

-----------------------------------------------------------------------------
(* C8.  updateStationPosition with a numeric x and y sets the station's  *)
(* coordinate to (x, y, sample(x, y)), leaves every other station and    *)
(* every line's reference list unchanged, and the curve of every line    *)
(* that references the station is built from the new coordinate.         *)

C8_IsStation(sts, i, s) == IF app = "gui" THEN sts[i].name = s ELSE i = s

C8_PositionEdit ==
    /\ last'.op \in {"station_table_cell_changed", "station_cell_changed"}
    /\ last'.ok
    /\ last'.row \in DOMAIN station_table
    /\ last'.row \in DOMAIN station_table'
    /\ \/ station_table'[last'.row].x # station_table[last'.row].x
       \/ station_table'[last'.row].y # station_table[last'.row].y
    /\ station_table'[last'.row].x.num
    /\ station_table'[last'.row].y.num

C8_UpdatePositionFrame ==
    [][ C8_PositionEdit
        => LET r == station_table'[last'.row]
               s == RowStation(r)
               x == r.x.v
               y == r.y.v
           IN  /\ \E i \in DOMAIN stations' :
                     /\ C8_IsStation(stations', i, s)
                     /\ stations'[i].coords = <<x, y, Sample(x, y)>>
               /\ \A i \in DOMAIN stations :
                     ~C8_IsStation(stations, i, s)
                     => i \in DOMAIN stations' /\ stations'[i] = stations[i]
               /\ DOMAIN lines' = DOMAIN lines
               /\ \A l \in DOMAIN lines :
                     lines'[l].station_ids = lines[l].station_ids
               /\ \A l \in DOMAIN lines' :
                     InSeq(s, lines'[l].station_ids)
                     => GeometryCurrent(lines'[l], stations')
      ]_vars

-----------------------------------------------------------------------------
(* C9.  Station elevation is derived: in every reachable state the       *)
(* stored z of every station is the sample of the currently loaded        *)
(* surface at the station's stored x and y.                               *)

C9_ElevationDerived ==
    \A i \in DOMAIN stations :
        stations[i].coords[3] =
            Sample(stations[i].coords[1], stations[i].coords[2])

-----------------------------------------------------------------------------
(* C10.  sample(x, y) is grid[i][j], where i is the lowest index whose   *)
(* x sample is nearest to x and j the lowest index whose y sample is     *)
(* nearest to y, each chosen on its own; below the sampled range the     *)
(* index is the first one, above it the last one.                         *)

C10_LowestNearest(arr, v, i) ==
    /\ \A k \in DOMAIN arr : Abs(arr[i] - v) <= Abs(arr[k] - v)
    /\ \A k \in DOMAIN arr : k < i => Abs(arr[k] - v) > Abs(arr[i] - v)
    /\ v <= arr[1] => i = 1
    /\ v >= arr[Len(arr)] => i = Len(arr)

C10_SampleIsNearestGridValue ==
    q # <<>>
    => \E i \in DOMAIN q.xs, j \in DOMAIN q.ys :
          /\ C10_LowestNearest(q.xs, q.x, i)
          /\ C10_LowestNearest(q.ys, q.y, j)
          /\ q.z = q.dem[i][j]

\* A lookup on the 3 x 2 surface with x midway between the first two x
\* samples (a tie) and y above the sampled range (clamped).
C10_TieAndClampSampled ==
    /\ q # <<>>
    /\ Len(q.xs) = 3
    /\ Abs(q.xs[1] - q.x) = Abs(q.xs[2] - q.x)
    /\ q.y > q.ys[Len(q.ys)]
    /\ q.z = q.dem[1][Len(q.ys)]

-----------------------------------------------------------------------------
(* C11.  With no elevation surface loaded, adding a station still         *)
(* succeeds: the pick commits, one row is added, and the new station is   *)
(* stored with z = 0, the default sample.                                 *)

C11_NoSurfaceAddStationStoresZero ==
    [][ (dem_data = <<>> /\ last'.op = "point_picked")
        => /\ last'.ok
           /\ Len(station_table') = Len(station_table) + 1
           /\ \E i \in DOMAIN stations' :
                 /\ IF app = "gui"
                    THEN stations'[i].name = StationName(next_station_id)
                    ELSE i = next_station_id
                 /\ stations'[i].coords[3] = 0
      ]_vars

-----------------------------------------------------------------------------
(* C12.  Malformed numeric text is a no-op on the model: an edit of a    *)
(* station's X or Y cell that does not commit leaves the station and     *)
(* line registries unchanged, and as long as the station's row stays as  *)
(* it is (not edited again, not removed, no reset) the station stays in  *)
(* the registry with the coordinates it had.                             *)

C12_RowMalformed(r) == ~(r.x.num /\ r.y.num)

C12_RowStays(r) == \E k \in DOMAIN station_table' : station_table'[k] = r

C12_StationKept(s) ==
    IF app = "gui"
    THEN \A i \in DOMAIN stations :
            stations[i].name = s
            => \E j \in DOMAIN stations' :
                  /\ stations'[j].name = s
                  /\ stations'[j].coords = stations[i].coords
    ELSE s \in DOMAIN stations
         => /\ s \in DOMAIN stations'
            /\ stations'[s].coords = stations[s].coords

C12_MalformedEditIsNoOp ==
    [][ /\ (/\ last'.op \in {"station_table_cell_changed",
                             "station_cell_changed"}
            /\ ~last'.ok)
           => UNCHANGED <<stations, lines>>
        /\ \A k \in DOMAIN station_table :
              (/\ C12_RowMalformed(station_table[k])
               /\ C12_RowStays(station_table[k])
               /\ last'.op # "clear_all")
              => C12_StationKept(RowStation(station_table[k]))
      ]_vars

-----------------------------------------------------------------------------
(* C13.  A failed terrain load (image missing or undecodable) aborts     *)
(* with all prior state retained: the loaded surface, its x and y        *)
(* sample arrays, every station and every line, the tables and the id    *)
(* counters are as before the attempt.                                   *)

C13_FailedLoadRetainsState ==
    [][ (last'.op = "load_new_dem" /\ ~last'.ok)
        => UNCHANGED <<dem_data, x_coords, y_coords, stations, lines,
                       station_table, line_table, next_station_id,
                       next_line_id>>
      ]_vars

\* A load has just failed in a session that has a surface, a station and
\* a line.
C13_FailedLoadWithState ==
    /\ last.op = "load_new_dem" /\ ~last.ok
    /\ dem_data # <<>>
    /\ stations # <<>>
    /\ lines # <<>>

-----------------------------------------------------------------------------
(* C14.  updateLine is idempotent on identical input: an edit of a line  *)
(* whose row is as addLine wrote it, accepted with the name, the ordered *)
(* station list and the colour the line has, leaves that line, every     *)
(* other line, the line table and every station exactly as they were.    *)

\* The row is text as add_line and edit_line write it: the colour is '#'
\* and 6 upper case hex digits, the station cell a ', ' join of names.
C14_RowAsDialogWrites(r) ==
    /\ r.color.form = "upper"
    /\ r.stations = join_names(split_names(r.stations))

C14_IdenticalEdit ==
    /\ Did("edit_line")
    /\ dlg'.new = dlg'.current
    /\ app = "gui" => C14_RowAsDialogWrites(line_table[last'.row])

C14_UpdateLineIdempotent ==
    [][ C14_IdenticalEdit
        => UNCHANGED <<lines, line_table, stations, station_table,
                       next_station_id, next_line_id>>
      ]_vars

\* A line with 2 resolvable stations and a random colour has just been
\* edited with what it already had.
C14_IdenticalEditDone ==
    /\ last.op = "edit_line" /\ last.ok
    /\ dlg # <<>>
    /\ dlg.new = dlg.current
    /\ Len(dlg.new.station_ids) >= 2
    /\ lines # <<>>

-----------------------------------------------------------------------------
(* C15.  Land/sea partition of the loaded surface: every grid point with *)
(* elevation strictly above 0.01 is in the land mesh at its elevation    *)
(* and is not flattened to 0 in the sea mesh; every other grid point is  *)
(* in the sea mesh at height 0 and is not in the land mesh.              *)

C15_PointPartitioned(data, inv, i, j) ==
    IF data[i][j] > Threshold
    THEN /\ [i |-> i, j |-> j, z |-> data[i][j]] \in land_mesh(data)
         /\ [i |-> i, j |-> j, z |-> 0] \notin sea_mesh(data, inv)
    ELSE /\ [i |-> i, j |-> j, z |-> 0] \in sea_mesh(data, inv)
         /\ [i |-> i, j |-> j, z |-> data[i][j]] \notin land_mesh(data)

C15_LandSeaPartition ==
    dem_data # <<>>
    => \A i \in DOMAIN dem_data : \A j \in DOMAIN dem_data[i] :
          C15_PointPartitioned(dem_data, build, i, j)

-----------------------------------------------------------------------------
(* Colour harness: rgb_to_hex and hex_to_rgb applied to a colour and to  *)
(* a colour text, and each result converted back.                        *)

\* Channel values: 0, 1, values between two bytes, values on a byte.
ColorChannels == {0, 1, ColorSub, 127 * ColorSub + 1, ColorOne - 1, ColorOne}
ColorBytes == {1, 127, 255}

colors(h) ==
    /\ q = <<>>
    /\ \E c \in ColorChannels \X ColorChannels \X ColorChannels :
          q' = [c |-> c,
                hex |-> rgb_to_hex(c),
                back |-> hex_to_rgb(rgb_to_hex(c)),
                h |-> HexText(h),
                rgb |-> hex_to_rgb(HexText(h)),
                hex_back |-> rgb_to_hex(hex_to_rgb(HexText(h)))]
    /\ UNCHANGED <<build, app, dem_data, x_coords, y_coords, stations, lines,
                   next_station_id, next_line_id, station_table, line_table,
                   last, steps, spline_raises, dlg,
                   pc, plotter>>

ColorNext == \E h \in ColorBytes \X ColorBytes \X ColorBytes : colors(h)

SpecColor == Init /\ [][ColorNext]_vars

-----------------------------------------------------------------------------
(* C16.  Colour round trip: hex_to_rgb(rgb_to_hex(c)) is within 1/255 of *)
(* c in each channel, for every colour c with channels in [0, 1]; and    *)
(* rgb_to_hex(hex_to_rgb(h)) = h for every text h of '#' and 6 upper     *)
(* case hex digits.                                                      *)

C16_ColorRoundTrip ==
    q # <<>>
    => /\ \A i \in 1..3 : Abs(q.back[i] - q.c[i]) <= ColorSub
       /\ q.hex_back = q.h

\* A colour with a channel of 1.0, a channel between two bytes and a
\* channel of 0 has made the round trip, and so has a text with FF and 7F.
C16_RoundTripsDone ==
    /\ q # <<>>
    /\ q.c = <<ColorOne, 127 * ColorSub + 1, 0>>
    /\ q.hex = HexText(<<255, 127, 0>>)
    /\ q.back # q.c
    /\ q.h = HexText(<<255, 127, 1>>)

-----------------------------------------------------------------------------
(* C17.  Serialized shape: every line record save_data builds for       *)
(* io.save_data has a Color that is '#' and 6 upper case hex digits and  *)
(* a Stations field that is the ', ' join of the line's station names in *)
(* order, also after cells of the line table were edited by hand.        *)

C17_SerializedShape ==
    [][ last'.op = "save_data_error"
        => \A k \in DOMAIN line_table :
              /\ line_data(line_table)[k].Color.form = "upper"
              /\ line_data(line_table)[k].Stations =
                    join_names(split_names(line_data(line_table)[k].Stations))
      ]_vars

-----------------------------------------------------------------------------
(* C18.  Cancelling commits nothing: when the add-line or edit-line      *)
(* dialog is declined, or the file chooser of load, save or import is    *)
(* cancelled, the station and line registries, the two tables, the id    *)
(* counters and the loaded surface are as before the action.             *)

C18_Declined ==
    /\ last'.op \in {"add_line", "edit_line", "load_new_dem_cancel",
                     "save_data", "import_data"}
    /\ ~last'.ok

C18_CancelCommitsNothing ==
    [][ C18_Declined
        => UNCHANGED <<stations, lines, station_table, line_table,
                       next_station_id, next_line_id, dem_data, x_coords,
                       y_coords, pc, plotter>>
      ]_vars

\* The add-line dialog has just been declined in a session of gui.py that
\* has 2 stations and a line.
C18_AddLineDeclined ==
    /\ app = "gui"
    /\ last.op = "add_line" /\ ~last.ok
    /\ Len(stations) >= 2
    /\ line_table # <<>>

-----------------------------------------------------------------------------
(* C19.  Derived geometry is never stale: in every state, the curve      *)
(* shown for each line of the registry is the one built from the         *)
(* current coordinates of exactly the stations of the line's reference   *)
(* list, in the list's order.                                            *)

C19_GeometryNeverStale ==
    \A l \in DOMAIN lines :
        /\ \A k \in DOMAIN lines[l].station_ids :
              Resolves(lines[l].station_ids[k])
        /\ GeometryCurrent(lines[l], stations)

-----------------------------------------------------------------------------
(* C20.  In every state the station reference list of every line of the  *)
(* registry contains each station at most once.                          *)

C20_NoDuplicateReferences ==
    \A l \in DOMAIN lines :
        \A a, b \in DOMAIN lines[l].station_ids :
            a # b => lines[l].station_ids[a] # lines[l].station_ids[b]

-----------------------------------------------------------------------------
(* C21.  Invalid text in a line's cells never crashes and never damages  *)
(* other lines: after an edit of a cell of the line table the refresh    *)
(* has completed without raising, and every other valid line is still    *)
(* in the line registry with its geometry.                               *)

C21_RefreshCompletes ==
    app = "gui"
    => \A i \in DOMAIN line_table' :
          LineRowOutcome(line_table'[i], stations') # "raise"

C21_OtherLinesKept ==
    IF app = "gui"
    THEN \A k \in DOMAIN line_table :
            (k # last'.row /\ LineRowOutcome(line_table[k], stations) = "line")
            => \E l \in DOMAIN lines' :
                  lines'[l] = LineOfRow(line_table[k], stations)
    ELSE \A l \in DOMAIN lines :
            l # line_table[last'.row].id
            => l \in DOMAIN lines' /\ lines'[l] = lines[l]

C21_InvalidLineTextIsHarmless ==
    [][ last'.op \in {"line_table_cell_changed", "line_cell_changed"}
        => C21_RefreshCompletes /\ C21_OtherLinesKept
      ]_vars

-----------------------------------------------------------------------------
\* TrainLineUI.load_new_dem statement by statement, for a file whose image
\* is read.  pc names the statement reached; the five steps taken in turn
\* change the state as load_new_dem(img) does in one.

\* Lines 269-276: the image is read and plot_dem_in_pyvista's result is
\* assigned to self.x_coords, self.y_coords and self.dem_data.
load_install(img) ==
    /\ app = "gui"
    /\ pc = "idle"
    /\ img # NoImage
    /\ Step
    /\ LET data == visual_to_elevation(img)
       IN  /\ x_coords' = plot_dem_x_coords(data)
           /\ y_coords' = plot_dem_y_coords(data)
           /\ dem_data' = data
    /\ pc' = "installed"
    /\ UNCHANGED <<build, app, stations, lines, next_station_id, next_line_id,
                   station_table, line_table, last, spline_raises, q, dlg,
                   plotter>>

\* Line 277: plotter_widget.clear() removes every actor of the scene.
load_clear ==
    /\ pc = "installed"
    /\ plotter' = [surface |-> <<>>, labels |-> FALSE, curves |-> FALSE]
    /\ pc' = "cleared"
    /\ UNCHANGED <<build, app, dem_data, x_coords, y_coords, stations, lines,
                   next_station_id, next_line_id, station_table, line_table,
                   last, steps, spline_raises, q, dlg>>

\* Lines 278-281: the land and sea meshes of the new surface are added.
\* An add_mesh that raises leaves the handler.
load_add_meshes ==
    /\ pc = "cleared"
    /\ LET out == add_meshes_outcome(dem_data)
       IN  /\ plotter' = [plotter EXCEPT
                             !.surface = IF out = "land" THEN <<>>
                                         ELSE dem_data]
           /\ IF out = "none"
              THEN pc' = "meshed" /\ UNCHANGED last
              ELSE /\ pc' = "idle"
                   /\ last' = Done("load_new_dem_raised", 0, FALSE)
    /\ UNCHANGED <<build, app, dem_data, x_coords, y_coords, stations, lines,
                   next_station_id, next_line_id, station_table, line_table,
                   steps, spline_raises, q, dlg>>

\* Line 283: refresh_stations_on_plot().
load_refresh_stations ==
    /\ pc = "meshed"
    /\ stations' = refresh_stations_on_plot(station_table)
    /\ plotter' = [plotter EXCEPT !.labels = TRUE]
    /\ pc' = "stations"
    /\ UNCHANGED <<build, app, dem_data, x_coords, y_coords, lines,
                   next_station_id, next_line_id, station_table, line_table,
                   last, steps, spline_raises, q, dlg>>

\* Line 284: refresh_lines_on_plot(); the handler returns.
load_refresh_lines ==
    /\ pc = "stations"
    /\ lines' = refresh_lines_on_plot(line_table, stations)
    /\ plotter' = [plotter EXCEPT !.curves = TRUE]
    /\ last' = Done("load_new_dem", 0, TRUE)
    /\ pc' = "idle"
    /\ UNCHANGED <<build, app, dem_data, x_coords, y_coords, stations,
                   next_station_id, next_line_id, station_table, line_table,
                   steps, spline_raises, q, dlg>>

\* Between loads the user picks points and adds lines.
LoadNext ==
    \/ \E img \in Images : load_install(img)
    \/ load_clear
    \/ load_add_meshes
    \/ load_refresh_stations
    \/ load_refresh_lines
    \/ pc = "idle" /\ \E p \in PickPoints : point_picked(p)
    \/ pc = "idle" /\ add_line

SpecLoad == Init /\ [][LoadNext]_vars

\* C22: a surface load is an ordered swap.  In no state is terrain of
\* another surface than the installed one still in the scene, and in no state
\* do the grid and its x/y sample arrays belong to different surfaces.
C22_OldGeometryGone ==
    plotter.surface \in {<<>>, dem_data}

C22_GridAndSamplesAgree ==
    dem_data # <<>>
    => /\ x_coords = plot_dem_x_coords(dem_data)
       /\ y_coords = plot_dem_y_coords(dem_data)

C22_OrderedSwap ==
    app = "gui" => C22_OldGeometryGone /\ C22_GridAndSamplesAgree


-----------------------------------------------------------------------------
(* C23.  Default station names stay unique: in a session of gui.py in    *)
(* which stations are only added, removed, imported and reset and *)
(* never renamed, no two rows of the station table have the same name.   *)

\* The sessions of the claim: no cell of the station table is edited.
NamesNext ==
    \/ \E p \in PickPoints : point_picked(p)
    \/ \E row \in DOMAIN station_table : delete_station(row)
    \/ add_line
    \/ save_data
    \/ import_data
    \/ clear_all

SpecNames == Init /\ [][NamesNext]_vars

C23_DefaultNamesUnique ==
    app = "gui"
    => \A i, j \in DOMAIN station_table :
          i # j => station_table[i].name # station_table[j].name

\* A station has just been added to a table from which an earlier station
\* was removed: the number of rows is behind the counter.
C23_AddedAfterRemoval ==
    /\ app = "gui"
    /\ last.op = "point_picked"
    /\ Len(station_table) >= 2
    /\ next_station_id > Len(station_table) + 1


-----------------------------------------------------------------------------
(* C24.  Save/import round trip: for any store, a save with a file name  *)
(* chosen writes the file (it does not end in the error box), so that an *)
(* import of it can return the saved stations and lines; an import that  *)
(* ends in the error box leaves tables, registries and counters as they  *)
(* were.                                                                 *)

C24_SaveWritesFile == last'.op # "save_data_error"

C24_FailedImportKeeps ==
    last'.op = "import_data_error"
    => UNCHANGED <<stations, lines, station_table, line_table,
                   next_station_id, next_line_id>>

C24_SaveImportRoundTrip ==
    [][ C24_SaveWritesFile /\ C24_FailedImportKeeps ]_vars

=============================================================================
